---- MODULE Spec2Model ----
(***************************************************************************)
(* Generic parameters of a declaration (src/generics.rs): the Generics,    *)
(* LifetimeDef, TypeParam, TypeParamBound, WhereClause and WherePredicate  *)
(* nodes, their parsers over a token cursor and their printers.            *)
(*                                                                         *)
(* A token is a string.  A cursor is the sequence of tokens still to be    *)
(* read.  A parse result is [ok |-> FALSE] or                               *)
(* [ok |-> TRUE, val |-> node, rest |-> cursor after the node].             *)
(* A Delimited list is a sequence of [item, delim] pairs, delim telling    *)
(* whether the pair carries its delimiter.                                 *)
(***************************************************************************)
EXTENDS Integers, Sequences, FiniteSets, TLC

VARIABLES
    cursor,    \* the tokens handed to a parser
    pc,        \* "cursor", "parsed", "value", "split", "turbofish", "printed", "reparsed"
    result,    \* [prod, res]: the production that ran and its parse result
    probe,     \* what the bracketed branch of the Generics parser went through
    generics,  \* the Generics value the views are taken of
    view,      \* the view or node that was printed last
    tokens,    \* the printed tokens
    reparsed   \* the parse result of the printed tokens

vars == <<cursor, pc, result, probe, generics, view, tokens, reparsed>>

(***************************************************************************)
(* Bounds of the model.                                                    *)
(***************************************************************************)
\* every cursor of at most MaxLen tokens over Alphabet is an input, next to
\* the longer cursors of Examples
MaxLen == 4
\* directly constructed lists hold at most MaxParams items
MaxParams == 2

(***************************************************************************)
(* Token classes.                                                          *)
(***************************************************************************)
Lifetimes == {"'a", "'b"}
Idents == {"T", "U", "u8", "Clone", "Sized"}
OuterAttrs == {"#[a]"}
InnerAttrs == {"#![i]"}

Fail == [ok |-> FALSE]
Ok(v, r) == [ok |-> TRUE, val |-> v, rest |-> r]

\* a value under a name
With(v, F(_)) == F(v)

\* do_parse!(x: p >> ...): what follows p runs on p's result, a failure of p is
\* the failure of the whole
Then(r, F(_)) == IF r.ok THEN F(r) ELSE Fail

\* option!(p): p's value or None; the cursor stays where it was when p fails
option(r, s) == IF r.ok THEN [ok |-> TRUE, val |-> [some |-> TRUE, v |-> r.val], rest |-> r.rest]
                ELSE [ok |-> TRUE, val |-> [some |-> FALSE], rest |-> s]

\* punct!(t) / keyword!(t): the next token is t
punct(s, t) ==
    IF s # <<>> /\ Head(s) = t THEN Ok(t, Tail(s)) ELSE Fail

\* option!(punct!(t)): val is TRUE when the token was there; never fails
option_punct(s, t) ==
    IF punct(s, t).ok THEN Ok(TRUE, Tail(s)) ELSE Ok(FALSE, s)

\* syn!(Lifetime)
Lifetime_parse(s) ==
    IF s # <<>> /\ Head(s) \in Lifetimes THEN Ok(Head(s), Tail(s)) ELSE Fail

\* syn!(Ident)
Ident_parse(s) ==
    IF s # <<>> /\ Head(s) \in Idents THEN Ok(Head(s), Tail(s)) ELSE Fail

\* syn!(Type): the type grammar is an external collaborator; a type is one path
\* segment here
Type_parse(s) == Ident_parse(s)

\* syn!(PolyTraitRef): a trait reference is one path segment here
PolyTraitRef_parse(s) == Ident_parse(s)

\* many0!(call!(Attribute::parse_outer)): the longest prefix of outer attributes
many0_outer_attrs(s) ==
    LET n == CHOOSE k \in 0..Len(s) :
                 /\ \A j \in 1..k : s[j] \in OuterAttrs
                 /\ (k < Len(s) => s[k + 1] \notin OuterAttrs)
    IN  Ok([j \in 1..n |-> [style |-> "Outer", tok |-> s[j]]], SubSeq(s, n + 1, Len(s)))

(***************************************************************************)
(* Delimited<T, D>                                                         *)
(***************************************************************************)
Delimited_new == <<>>

is_empty(list) == Len(list) = 0

trailing_delim(list) == Len(list) > 0 /\ list[Len(list)].delim

empty_or_trailing(list) == is_empty(list) \/ trailing_delim(list)

push_first(item) == <<[item |-> item, delim |-> FALSE]>>

\* the delimiter goes to the pair that was last, the item becomes the last pair
push_next(list, item) ==
    Append([list EXCEPT ![Len(list)].delim = TRUE], [item |-> item, delim |-> FALSE])

push_trailing(list) == [list EXCEPT ![Len(list)].delim = TRUE]

\* Delimited::parse: a first item, then delimiter-and-item pairs while both
\* parse, then (terminated only) one optional trailing delimiter.  No item at
\* all is the empty list, not a failure.
Delimited_parse(s, P(_), d, terminated) ==
    With(P(s), LAMBDA first :
      IF ~first.ok THEN Ok(Delimited_new, s)
      ELSE
        LET loop[n \in 0..Len(s)] ==
                IF n = 0
                THEN [res |-> push_first(first.val), rest |-> first.rest, stop |-> FALSE]
                ELSE With(loop[n - 1], LAMBDA st :
                       IF st.stop \/ ~punct(st.rest, d).ok
                       THEN [st EXCEPT !.stop = TRUE]
                       ELSE With(P(Tail(st.rest)), LAMBDA nx :
                              IF nx.ok
                              THEN [res |-> push_next(st.res, nx.val),
                                    rest |-> nx.rest, stop |-> FALSE]
                              ELSE [st EXCEPT !.stop = TRUE]))
        IN  With(loop[Len(s)], LAMBDA fin :
              IF terminated /\ punct(fin.rest, d).ok
              THEN Ok(push_trailing(fin.res), Tail(fin.rest))
              ELSE Ok(fin.res, fin.rest)))

parse_terminated(s, P(_), d) == Delimited_parse(s, P, d, TRUE)

parse_separated(s, P(_), d) == Delimited_parse(s, P, d, FALSE)

parse_separated_nonempty(s, P(_), d) ==
    With(Delimited_parse(s, P, d, FALSE), LAMBDA r :
      IF is_empty(r.val) THEN Fail ELSE r)

(***************************************************************************)
(* Nodes built without parsing.                                            *)
(***************************************************************************)
None == [some |-> FALSE]
Some(v) == [some |-> TRUE, v |-> v]

unwrap_or_default(opt) == IF opt.some THEN opt.v ELSE Delimited_new

WhereClause_default == [where_token |-> FALSE, predicates |-> Delimited_new]

WhereClause_none == WhereClause_default

Generics_default ==
    [lt_token |-> FALSE, gt_token |-> FALSE, lifetimes |-> Delimited_new,
     ty_params |-> Delimited_new, where_clause |-> WhereClause_default]

LifetimeDef_new(lifetime) ==
    [attrs |-> <<>>, lifetime |-> lifetime, colon_token |-> FALSE,
     bounds |-> Delimited_new]

TypeParam_from(ident) ==
    [attrs |-> <<>>, ident |-> ident, colon_token |-> FALSE,
     bounds |-> Delimited_new, eq_token |-> FALSE, default |-> None]

(***************************************************************************)
(* mod parsing                                                             *)
(***************************************************************************)
\* cond!(colon.is_some(), call!(Delimited::parse_separated_nonempty)) of LifetimeDef
LifetimeDef_bounds(colon, s) ==
    IF colon
    THEN Then(parse_separated_nonempty(s, Lifetime_parse, "+"),
              LAMBDA b : Ok(Some(b.val), b.rest))
    ELSE Ok(None, s)

LifetimeDef_parse(s) ==
    With(many0_outer_attrs(s), LAMBDA attrs :
    Then(Lifetime_parse(attrs.rest), LAMBDA life :
    With(option_punct(life.rest, ":"), LAMBDA colon :
    Then(LifetimeDef_bounds(colon.val, colon.rest), LAMBDA bounds :
      Ok([attrs |-> attrs.val,
          lifetime |-> life.val,
          bounds |-> unwrap_or_default(bounds.val),
          colon_token |-> colon.val], bounds.rest)))))

BoundLifetimes_parse(s) ==
    Then(punct(s, "for"), LAMBDA for_ :
    Then(punct(for_.rest, "<"), LAMBDA lt :
    With(parse_terminated(lt.rest, LifetimeDef_parse, ","), LAMBDA lifetimes :
    Then(punct(lifetimes.rest, ">"), LAMBDA gt :
      Ok([lifetimes |-> lifetimes.val], gt.rest)))))

\* first branch of TypeParamBound's alt!
TypeParamBound_maybe(s) ==
    Then(punct(s, "?"), LAMBDA question :
    Then(PolyTraitRef_parse(question.rest), LAMBDA poly :
      Ok([kind |-> "Trait", poly |-> poly.val, modifier |-> "Maybe"], poly.rest)))

TypeParamBound_parse(s) ==
    With(TypeParamBound_maybe(s), LAMBDA maybe :
      IF maybe.ok THEN maybe
      ELSE With(Lifetime_parse(s), LAMBDA region :
             IF region.ok
             THEN Ok([kind |-> "Region", lifetime |-> region.val], region.rest)
             ELSE Then(PolyTraitRef_parse(s), LAMBDA poly :
                    Ok([kind |-> "Trait", poly |-> poly.val, modifier |-> "None"],
                       poly.rest))))

\* variant of TypeParam_bounds: parse_separated in place of parse_separated_nonempty
TypeParam_bounds_lax(colon, s) ==
    IF colon
    THEN With(parse_separated(s, TypeParamBound_parse, "+"),
              LAMBDA b : Ok(Some(b.val), b.rest))
    ELSE Ok(None, s)

\* cond!(colon.is_some(), call!(Delimited::parse_separated_nonempty)) of TypeParam
TypeParam_bounds(colon, s) ==
    IF colon
    THEN Then(parse_separated_nonempty(s, TypeParamBound_parse, "+"),
              LAMBDA b : Ok(Some(b.val), b.rest))
    ELSE Ok(None, s)

\* option!(do_parse!(eq: punct!(=) >> ty: syn!(Type) >> (eq, ty)))
TypeParam_default(s) ==
    option(Then(punct(s, "="), LAMBDA eq : Type_parse(eq.rest)), s)

TypeParam_parse(s) ==
    With(many0_outer_attrs(s), LAMBDA attrs :
    Then(Ident_parse(attrs.rest), LAMBDA id :
    With(option_punct(id.rest, ":"), LAMBDA colon :
    Then(TypeParam_bounds(colon.val, colon.rest), LAMBDA bounds :
    With(TypeParam_default(bounds.rest), LAMBDA default :
      Ok([attrs |-> attrs.val,
          ident |-> id.val,
          bounds |-> unwrap_or_default(bounds.val),
          colon_token |-> colon.val,
          eq_token |-> default.val.some,
          default |-> default.val], default.rest))))))

\* variant of Generics_ty_params_cond: the type parameter list always attempted
Generics_ty_params_cond_always(lifetimes) == TRUE

\* the condition of the cond! that guards the type parameter list
Generics_ty_params_cond(lifetimes) ==
    is_empty(lifetimes) \/ trailing_delim(lifetimes)

\* cond!(..., call!(Delimited::parse_terminated)) of Generics
Generics_ty_params(attempt, s) ==
    IF attempt
    THEN With(parse_terminated(s, TypeParam_parse, ","), LAMBDA p : Ok(Some(p.val), p.rest))
    ELSE Ok(None, s)

\* first branch of the alt!: the bracketed lists.  seen records what the branch
\* went through once the opening bracket was read, also when it then fails.
Generics_bracketed(s) ==
    With(punct(s, "<"), LAMBDA lt :
      IF ~lt.ok THEN [ok |-> FALSE, seen |-> None]
      ELSE
        With(parse_terminated(lt.rest, LifetimeDef_parse, ","), LAMBDA lifetimes :
        With(Generics_ty_params_cond(lifetimes.val), LAMBDA attempt :
        With(Generics_ty_params(attempt, lifetimes.rest), LAMBDA ty_params :
        With(Some([lifetimes |-> lifetimes.val, attempted |-> attempt]), LAMBDA seen :
          IF ~punct(ty_params.rest, ">").ok THEN [ok |-> FALSE, seen |-> seen]
          ELSE [ok |-> TRUE, rest |-> Tail(ty_params.rest), seen |-> seen,
                val |-> [lifetimes |-> lifetimes.val, ty_params |-> ty_params.val,
                         lt |-> TRUE, gt |-> TRUE]])))))

\* alt!(bracketed | epsilon!()): the second branch takes what the first refuses
Generics_alt(s) ==
    With(Generics_bracketed(s), LAMBDA b :
      IF b.ok THEN b
      ELSE [ok |-> TRUE, rest |-> s, seen |-> b.seen,
            val |-> [lifetimes |-> Delimited_new, ty_params |-> None,
                     lt |-> FALSE, gt |-> FALSE]])

\* map!(alt!(...), |(lifetimes, ty_params, lt, gt)| Generics {...})
Generics_map(a) ==
    [ok |-> TRUE, rest |-> a.rest, seen |-> a.seen,
     val |-> [lifetimes |-> a.val.lifetimes,
              ty_params |-> unwrap_or_default(a.val.ty_params),
              where_clause |-> WhereClause_default,
              gt_token |-> a.val.gt,
              lt_token |-> a.val.lt]]

Generics_parse(s) == Generics_map(Generics_alt(s))

\* cond!(colon.is_some(), call!(Delimited::parse_separated)) of WherePredicate
WherePredicate_region_bounds(colon, s) ==
    IF colon
    THEN With(parse_separated(s, Lifetime_parse, "+"), LAMBDA b : Ok(Some(b.val), b.rest))
    ELSE Ok(None, s)

\* first branch of WherePredicate's alt!
WherePredicate_region(s) ==
    Then(Lifetime_parse(s), LAMBDA ident :
    With(option_punct(ident.rest, ":"), LAMBDA colon :
    Then(WherePredicate_region_bounds(colon.val, colon.rest), LAMBDA bounds :
      Ok([kind |-> "RegionPredicate",
          lifetime |-> ident.val,
          bounds |-> unwrap_or_default(bounds.val),
          colon_token |-> colon.val], bounds.rest))))

\* variant of WherePredicate_bound_bounds: parse_separated
WherePredicate_bound_bounds_lax(s) == parse_separated(s, TypeParamBound_parse, "+")

\* call!(Delimited::parse_separated_nonempty) of the second branch
WherePredicate_bound_bounds(s) == parse_separated_nonempty(s, TypeParamBound_parse, "+")

\* second branch of WherePredicate's alt!
WherePredicate_bound(s) ==
    With(option(BoundLifetimes_parse(s), s), LAMBDA bound_lifetimes :
    Then(Type_parse(bound_lifetimes.rest), LAMBDA bounded_ty :
    Then(punct(bounded_ty.rest, ":"), LAMBDA colon :
    Then(WherePredicate_bound_bounds(colon.rest), LAMBDA bounds :
      Ok([kind |-> "BoundPredicate",
          bound_lifetimes |-> bound_lifetimes.val,
          bounded_ty |-> bounded_ty.val,
          bounds |-> bounds.val,
          colon_token |-> TRUE], bounds.rest)))))

WherePredicate_parse(s) ==
    With(WherePredicate_region(s), LAMBDA region :
      IF region.ok THEN region ELSE WherePredicate_bound(s))

WhereClause_parse(s) ==
    With(punct(s, "where"), LAMBDA where_ :
      IF where_.ok
      THEN With(parse_terminated(where_.rest, WherePredicate_parse, ","), LAMBDA predicates :
             Ok([predicates |-> predicates.val, where_token |-> TRUE], predicates.rest))
      ELSE Ok(WhereClause_default, s))

(***************************************************************************)
(* mod printing                                                            *)
(***************************************************************************)
\* TokensOrDefault(&Option<T>): the token itself, or T::default() when it is
\* absent; a token carries no more than its text here
TokensOrDefault(present, t) == IF present THEN <<t>> ELSE <<t>>

\* Delimited::to_tokens: every item, each followed by its delimiter if it has one
Delimited_to_tokens(list, Item(_), d) ==
    LET f[n \in 0..Len(list)] ==
            IF n = 0 THEN <<>>
            ELSE f[n - 1] \o Item(list[n].item)
                          \o (IF list[n].delim THEN <<d>> ELSE <<>>)
    IN  f[Len(list)]

\* tokens.append_all(attrs.outer())
attrs_outer(attrs) ==
    LET outer == SelectSeq(attrs, LAMBDA a : a.style = "Outer")
    IN  [j \in 1..Len(outer) |-> outer[j].tok]

Lifetime_to_tokens(lifetime) == <<lifetime>>

Ident_to_tokens(ident) == <<ident>>

Type_to_tokens(ty) == <<ty>>

PolyTraitRef_to_tokens(poly) == <<poly>>

\* variant of empty_normal_generics: || in place of &&
empty_normal_generics_either(g) ==
    is_empty(g.lifetimes) \/ is_empty(g.ty_params)

\* Returns true if the generics object has no lifetimes or ty_params.
empty_normal_generics(g) ==
    is_empty(g.lifetimes) /\ is_empty(g.ty_params)

\* variant of maybe_add_lifetime_params_comma: the lifetime list's own trailing
\* delimiter not looked at
maybe_add_lifetime_params_comma_untrailed(g) ==
    IF ~is_empty(g.ty_params) THEN <<",">> ELSE <<>>

\* We need a comma between the lifetimes list and the ty_params list if there
\* are more than 0 lifetimes, the lifetimes list didn't have a trailing
\* delimiter, and there are more than 0 type parameters.
maybe_add_lifetime_params_comma(g) ==
    IF ~empty_or_trailing(g.lifetimes) /\ ~is_empty(g.ty_params)
    THEN <<",">> ELSE <<>>

LifetimeDef_to_tokens(l) ==
    attrs_outer(l.attrs) \o Lifetime_to_tokens(l.lifetime)
    \o (IF ~is_empty(l.bounds)
        THEN TokensOrDefault(l.colon_token, ":")
             \o Delimited_to_tokens(l.bounds, Lifetime_to_tokens, "+")
        ELSE <<>>)

TraitBoundModifier_to_tokens(m) == IF m = "Maybe" THEN <<"?">> ELSE <<>>

TypeParamBound_to_tokens(b) ==
    IF b.kind = "Region" THEN Lifetime_to_tokens(b.lifetime)
    ELSE TraitBoundModifier_to_tokens(b.modifier) \o PolyTraitRef_to_tokens(b.poly)

\* variant of TypeParam_to_tokens: the default left off
TypeParam_to_tokens_without_default(p) ==
    attrs_outer(p.attrs) \o Ident_to_tokens(p.ident)
    \o (IF ~is_empty(p.bounds)
        THEN TokensOrDefault(p.colon_token, ":")
             \o Delimited_to_tokens(p.bounds, TypeParamBound_to_tokens, "+")
        ELSE <<>>)

TypeParam_to_tokens(p) ==
    attrs_outer(p.attrs) \o Ident_to_tokens(p.ident)
    \o (IF ~is_empty(p.bounds)
        THEN TokensOrDefault(p.colon_token, ":")
             \o Delimited_to_tokens(p.bounds, TypeParamBound_to_tokens, "+")
        ELSE <<>>)
    \o (IF p.default.some
        THEN TokensOrDefault(p.eq_token, "=") \o Type_to_tokens(p.default.v)
        ELSE <<>>)

Generics_to_tokens(g) ==
    IF empty_normal_generics(g) THEN <<>>
    ELSE TokensOrDefault(g.lt_token, "<")
         \o Delimited_to_tokens(g.lifetimes, LifetimeDef_to_tokens, ",")
         \o maybe_add_lifetime_params_comma(g)
         \o Delimited_to_tokens(g.ty_params, TypeParam_to_tokens, ",")
         \o TokensOrDefault(g.gt_token, ">")

\* variant of ImplGenerics_item: the default printed as in a declaration
ImplGenerics_item_with_default(p) == TypeParam_to_tokens(p)

\* body of ImplGenerics' loop over ty_params, without the delimiter: Leave off
\* the type parameter defaults
ImplGenerics_item(p) ==
    attrs_outer(p.attrs) \o Ident_to_tokens(p.ident)
    \o (IF ~is_empty(p.bounds)
        THEN TokensOrDefault(p.colon_token, ":")
             \o Delimited_to_tokens(p.bounds, TypeParamBound_to_tokens, "+")
        ELSE <<>>)

ImplGenerics_to_tokens(g) ==
    IF empty_normal_generics(g) THEN <<>>
    ELSE TokensOrDefault(g.lt_token, "<")
         \o Delimited_to_tokens(g.lifetimes, LifetimeDef_to_tokens, ",")
         \o maybe_add_lifetime_params_comma(g)
         \o Delimited_to_tokens(g.ty_params, ImplGenerics_item, ",")
         \o TokensOrDefault(g.gt_token, ">")

\* variant of TypeGenerics_lifetime: attributes and bounds printed
TypeGenerics_lifetime_with_bounds(l) == LifetimeDef_to_tokens(l)

\* bodies of TypeGenerics' two loops, without the delimiter: Leave off the
\* lifetime bounds and attributes, and the type parameter defaults
TypeGenerics_lifetime(l) == Lifetime_to_tokens(l.lifetime)

TypeGenerics_ty_param(p) == Ident_to_tokens(p.ident)

TypeGenerics_to_tokens(g) ==
    IF empty_normal_generics(g) THEN <<>>
    ELSE TokensOrDefault(g.lt_token, "<")
         \o Delimited_to_tokens(g.lifetimes, TypeGenerics_lifetime, ",")
         \o maybe_add_lifetime_params_comma(g)
         \o Delimited_to_tokens(g.ty_params, TypeGenerics_ty_param, ",")
         \o TokensOrDefault(g.gt_token, ">")

Turbofish_to_tokens(g) ==
    IF ~empty_normal_generics(g)
    THEN <<"::">> \o TypeGenerics_to_tokens(g)
    ELSE <<>>

BoundLifetimes_to_tokens(b) ==
    <<"for">> \o <<"<">>
    \o Delimited_to_tokens(b.lifetimes, LifetimeDef_to_tokens, ",")
    \o <<">">>

WhereBoundPredicate_to_tokens(p) ==
    (IF p.bound_lifetimes.some THEN BoundLifetimes_to_tokens(p.bound_lifetimes.v) ELSE <<>>)
    \o Type_to_tokens(p.bounded_ty)
    \o <<":">>
    \o Delimited_to_tokens(p.bounds, TypeParamBound_to_tokens, "+")

WhereRegionPredicate_to_tokens(p) ==
    Lifetime_to_tokens(p.lifetime)
    \o (IF ~is_empty(p.bounds)
        THEN TokensOrDefault(p.colon_token, ":")
             \o Delimited_to_tokens(p.bounds, Lifetime_to_tokens, "+")
        ELSE <<>>)

WhereEqPredicate_to_tokens(p) ==
    Type_to_tokens(p.lhs_ty) \o <<"=">> \o Type_to_tokens(p.rhs_ty)

WherePredicate_to_tokens(p) ==
    CASE p.kind = "BoundPredicate" -> WhereBoundPredicate_to_tokens(p)
      [] p.kind = "RegionPredicate" -> WhereRegionPredicate_to_tokens(p)
      [] p.kind = "EqPredicate" -> WhereEqPredicate_to_tokens(p)

\* variant of WhereClause_to_tokens: gated on where_token
WhereClause_to_tokens_keyword_gated(w) ==
    IF w.where_token
    THEN <<"where">> \o Delimited_to_tokens(w.predicates, WherePredicate_to_tokens, ",")
    ELSE <<>>

WhereClause_to_tokens(w) ==
    IF ~is_empty(w.predicates)
    THEN TokensOrDefault(w.where_token, "where")
         \o Delimited_to_tokens(w.predicates, WherePredicate_to_tokens, ",")
    ELSE <<>>

(***************************************************************************)
(* Inputs.                                                                 *)
(***************************************************************************)
Alphabet == {"<", ">", ",", ":", "+", "=", "'a", "T", "#[a]"}

Words(n) == UNION {[1..k -> Alphabet] : k \in 0..n}

Examples ==
    { <<"<", ">">>,
      <<"<", "'a", ">">>,
      <<"<", "'a", ",", ">">>,
      <<"<", "'a", ",", "T", ":", "Clone", ">">>,
      <<"<", "T", "=", "u8", ">">>,
      <<"<", "'a", ",", "'b", ">">>,
      <<"<", "'a", "'b", ">">>,
      <<"<", "'a", "T", ">">>,
      <<"<", "'a", ",", "T">>,
      <<"<", "'a", ",", "T", ">">>,
      <<"<", "'a", ":", "'b", ",", "T", ":", "Clone", "=", "u8", ">">>,
      <<"<", "#[a]", "'a", ":", "'b", "+", "'a", ",", "'b", ",", "#[a]", "T", ":",
        "?", "Sized", "+", "'a", "=", "u8", ",", "U", ",", ">", "{">>,
      <<"where", "T", ":", "Clone", "{">>,
      <<"where", "'a", ":", "'b", "+", "'a", ",", "T", ":", "Clone", ",", "{">>,
      <<"where", "for", "<", "'a", ">", "T", ":", "Clone", "+", "'a", ",", "'b">>,
      <<"where", "{">>,
      <<"for", "<", "'a", ",", "'b", ">", "T", ":", "?", "Sized">>,
      <<"for", "<", "'a", ">", "T", ":">>,
      <<"for", "<", "'a", "T", ":", "Clone">>,
      <<"'a", ":", "'b", "+", "'a", "+">>,
      <<"'a", ":", "T">>,
      <<"T", "=", "u8">>,
      <<"T", ":", "Clone", "+", "?", "Sized", "+", "'a", "=", "u8">>,
      <<"#[a]", "#[a]", "T", ":", "Clone", "=", ">">>,
      <<"?", "Sized", "+", "Clone">> }

NoResult == [prod |-> "none"]

(***************************************************************************)
(* Values built directly, field by field.                                  *)
(***************************************************************************)
\* every Delimited list of n items of S: only the last pair may lack its delimiter
DelimitedOfLen(S, n) ==
    { [j \in 1..n |-> [item |-> items[j], delim |-> (j < n \/ last)]] :
          items \in [1..n -> S], last \in BOOLEAN }

LifetimeDefValues ==
    { LifetimeDef_new("'a"),
      [attrs |-> <<[style |-> "Outer", tok |-> "#[a]"], [style |-> "Inner", tok |-> "#![i]"]>>,
       lifetime |-> "'b", colon_token |-> FALSE,
       bounds |-> <<[item |-> "'a", delim |-> TRUE], [item |-> "'b", delim |-> FALSE]>>],
      [attrs |-> <<>>, lifetime |-> "'a", colon_token |-> TRUE, bounds |-> Delimited_new] }

TypeParamValues ==
    { TypeParam_from("T"),
      [attrs |-> <<[style |-> "Inner", tok |-> "#![i]"], [style |-> "Outer", tok |-> "#[a]"]>>,
       ident |-> "U", colon_token |-> TRUE,
       bounds |-> <<[item |-> [kind |-> "Trait", poly |-> "Sized", modifier |-> "Maybe"],
                     delim |-> TRUE],
                    [item |-> [kind |-> "Region", lifetime |-> "'a"], delim |-> FALSE]>>,
       eq_token |-> TRUE, default |-> Some("u8")],
      [attrs |-> <<>>, ident |-> "T", colon_token |-> TRUE, bounds |-> Delimited_new,
       eq_token |-> FALSE, default |-> Some("u8")],
      [attrs |-> <<>>, ident |-> "U", colon_token |-> FALSE,
       bounds |-> <<[item |-> [kind |-> "Trait", poly |-> "Clone", modifier |-> "None"],
                     delim |-> FALSE]>>,
       eq_token |-> TRUE, default |-> None] }

WherePredicateValues ==
    { [kind |-> "BoundPredicate", bound_lifetimes |-> Some([lifetimes |->
           <<[item |-> LifetimeDef_new("'a"), delim |-> FALSE]>>]),
       bounded_ty |-> "T", colon_token |-> TRUE,
       bounds |-> <<[item |-> [kind |-> "Trait", poly |-> "Clone", modifier |-> "None"],
                     delim |-> FALSE]>>],
      [kind |-> "RegionPredicate", lifetime |-> "'a", colon_token |-> FALSE,
       bounds |-> <<[item |-> "'b", delim |-> FALSE]>>],
      [kind |-> "EqPredicate", lhs_ty |-> "T", rhs_ty |-> "u8"] }

WhereClauseValues ==
    { [where_token |-> w, predicates |-> p] :
          w \in BOOLEAN,
          p \in { Delimited_new,
                  [j \in 1..3 |-> [item |-> CHOOSE x \in WherePredicateValues :
                                       x.kind = <<"BoundPredicate", "RegionPredicate",
                                                  "EqPredicate">>[j],
                                   delim |-> j < 3]] } }

\* lists of at most MaxParams parameters in all
GenericsValues ==
    UNION { { [lt_token |-> lt, gt_token |-> gt, lifetimes |-> ls, ty_params |-> ps,
               where_clause |-> w] :
                  lt \in BOOLEAN, gt \in BOOLEAN,
                  ls \in DelimitedOfLen(LifetimeDefValues, nm[1]),
                  ps \in DelimitedOfLen(TypeParamValues, nm[2]),
                  w \in WhereClauseValues } :
            nm \in {x \in (0..MaxParams) \X (0..MaxParams) : x[1] + x[2] <= MaxParams} }

(***************************************************************************)
(* Parsing a cursor.                                                       *)
(***************************************************************************)
Parsed(prod, res) ==
    /\ pc = "cursor"
    /\ result' = [prod |-> prod, res |-> res]
    /\ pc' = "parsed"
    /\ UNCHANGED <<cursor, probe, generics, view, tokens, reparsed>>

ParseGenerics ==
    /\ pc = "cursor"
    /\ \E r \in {Generics_parse(cursor)} :
         /\ result' = [prod |-> "Generics", res |-> Ok(r.val, r.rest)]
         /\ probe' = r.seen
         /\ generics' = r.val
    /\ pc' = "value"
    /\ UNCHANGED <<cursor, view, tokens, reparsed>>

ParseLifetimeDef == Parsed("LifetimeDef", LifetimeDef_parse(cursor))

ParseBoundLifetimes == Parsed("BoundLifetimes", BoundLifetimes_parse(cursor))

ParseTypeParam == Parsed("TypeParam", TypeParam_parse(cursor))

ParseTypeParamBound == Parsed("TypeParamBound", TypeParamBound_parse(cursor))

ParseWhereClause == Parsed("WhereClause", WhereClause_parse(cursor))

ParseWherePredicate == Parsed("WherePredicate", WherePredicate_parse(cursor))

(***************************************************************************)
(* Printing a Generics value.                                              *)
(***************************************************************************)
ToTokens(from, v, toks) ==
    /\ pc = from
    /\ view' = v
    /\ tokens' = toks
    /\ pc' = "printed"
    /\ UNCHANGED <<cursor, result, probe, generics, reparsed>>

ToTokensGenerics == ToTokens("value", "Generics", Generics_to_tokens(generics))

\* split_for_impl: (ImplGenerics(self), TypeGenerics(self), &self.where_clause)
split_for_impl ==
    /\ pc = "value"
    /\ pc' = "split"
    /\ UNCHANGED <<cursor, result, probe, generics, view, tokens, reparsed>>

ToTokensImplGenerics == ToTokens("split", "ImplGenerics", ImplGenerics_to_tokens(generics))

ToTokensTypeGenerics == ToTokens("split", "TypeGenerics", TypeGenerics_to_tokens(generics))

ToTokensWhereClause ==
    ToTokens("split", "WhereClause", WhereClause_to_tokens(generics.where_clause))

\* as_turbofish: Turbofish(self.0)
as_turbofish ==
    /\ pc = "split"
    /\ pc' = "turbofish"
    /\ UNCHANGED <<cursor, result, probe, generics, view, tokens, reparsed>>

ToTokensTurbofish == ToTokens("turbofish", "Turbofish", Turbofish_to_tokens(generics))

\* the printed declaration goes through the Generics parser again
Reparse ==
    /\ pc = "printed"
    /\ view = "Generics"
    /\ result.prod = "Generics"
    /\ \E r \in {Generics_parse(tokens)} :
         reparsed' = [prod |-> "Generics", res |-> Ok(r.val, r.rest)]
    /\ pc' = "reparsed"
    /\ UNCHANGED <<cursor, result, probe, generics, view, tokens>>

(***************************************************************************)
(* Specifications.                                                         *)
(***************************************************************************)
\* Spec: a cursor is parsed by one of the parsers; a parsed Generics is printed
\* as a declaration and parsed again.
Init ==
    /\ \/ cursor \in Words(MaxLen)
       \/ cursor \in Examples
    /\ pc = "cursor"
    /\ result = NoResult
    /\ probe = None
    /\ generics = Generics_default
    /\ view = "none"
    /\ tokens = <<>>
    /\ reparsed = NoResult

Next ==
    \/ ParseGenerics
    \/ ParseLifetimeDef
    \/ ParseBoundLifetimes
    \/ ParseTypeParam
    \/ ParseTypeParamBound
    \/ ParseWhereClause
    \/ ParseWherePredicate
    \/ ToTokensGenerics
    \/ Reparse

Spec == Init /\ [][Next]_vars

\* SpecPrint: a Generics value, built directly or parsed from one of the
\* examples, is printed in each of its views.
InitPrint ==
    /\ cursor = <<>>
    /\ pc = "value"
    /\ result = NoResult
    /\ probe = None
    /\ \/ generics \in GenericsValues
       \/ generics \in {Generics_parse(c).val : c \in Examples}
    /\ view = "none"
    /\ tokens = <<>>
    /\ reparsed = NoResult

NextPrint ==
    \/ ToTokensGenerics
    \/ split_for_impl
    \/ ToTokensImplGenerics
    \/ ToTokensTypeGenerics
    \/ ToTokensWhereClause
    \/ as_turbofish
    \/ ToTokensTurbofish

SpecPrint == InitPrint /\ [][NextPrint]_vars

(***************************************************************************)
(* Properties.                                                             *)
(***************************************************************************)
Views == {"Generics", "ImplGenerics", "TypeGenerics", "Turbofish"}

ParsedGenerics == pc \in {"value", "printed", "reparsed"} /\ result.prod = "Generics"

Printed(v) == pc = "printed" /\ view = v

Concat(segs) ==
    LET f[n \in 0..Len(segs)] == IF n = 0 THEN <<>> ELSE f[n - 1] \o segs[n]
    IN  f[Len(segs)]

Count(toks, tok) == Cardinality({i \in 1..Len(toks) : toks[i] = tok})

NumParams(g) == Len(g.lifetimes) + Len(g.ty_params)

\* the two lists read as one: every parameter but the last is followed by a
\* comma, the last one by its own delimiter if it has one
JoinedParams(g, L(_), T(_)) ==
    Concat([k \in 1..NumParams(g) |->
              IF k <= Len(g.lifetimes)
              THEN L(g.lifetimes[k].item)
                   \o (IF k < NumParams(g) \/ g.lifetimes[k].delim THEN <<",">> ELSE <<>>)
              ELSE T(g.ty_params[k - Len(g.lifetimes)].item)
                   \o (IF k < NumParams(g) \/ g.ty_params[k - Len(g.lifetimes)].delim
                       THEN <<",">> ELSE <<>>)])

\* the printed tokens between the brackets
Inner(toks, v) ==
    IF v = "Turbofish" THEN SubSeq(toks, 3, Len(toks) - 1)
    ELSE SubSeq(toks, 2, Len(toks) - 1)

OwnDelims(list) == Cardinality({k \in 1..Len(list) : list[k].delim})

NeedsComma(g) ==
    /\ ~is_empty(g.lifetimes)
    /\ ~g.lifetimes[Len(g.lifetimes)].delim
    /\ ~is_empty(g.ty_params)

RoundTripExamples ==
    { <<"<", ">">>,
      <<"<", "'a", ">">>,
      <<"<", "'a", ",", ">">>,
      <<"<", "'a", ",", "T", ":", "Clone", ">">>,
      <<"<", "T", "=", "u8", ">">> }

\* C1 as stated: for each of the five examples, parsing the printed declaration
\* view of the parsed value gives back a value equal to it, bracket tokens
\* included.
C1_RoundTripAllFive ==
    (pc = "reparsed" /\ cursor \in RoundTripExamples)
        => reparsed.res.val = result.res.val

\* C1 amended: parsing the printed declaration view of a parsed Generics gives
\* back an equal value whenever the value has a parameter (the four examples
\* other than `<>`); a value without parameters (`<>`) prints no token and
\* parses back as the default value, equal to it but for the bracket tokens.
C1_RoundTrip ==
    pc = "reparsed" =>
        IF empty_normal_generics(result.res.val)
        THEN /\ tokens = <<>>
             /\ reparsed.res.val = Generics_default
             /\ reparsed.res.val
                    = [result.res.val EXCEPT !.lt_token = FALSE, !.gt_token = FALSE]
        ELSE reparsed.res.val = result.res.val

C1_Witness ==
    /\ pc = "reparsed"
    /\ cursor = <<"<", "'a", ",", "T", ":", "Clone", ">">>
    /\ Len(result.res.val.ty_params) = 1
    /\ reparsed.res.val = result.res.val
    /\ reparsed.res.val.lt_token

\* C2 as stated: when the cursor starts with an opening bracket the Generics
\* parser either fails or returns a value with lt_token and gt_token present;
\* it returns the default value only when the next token is not `<`.
C2_BracketNeverDefault ==
    (ParsedGenerics /\ cursor # <<>> /\ Head(cursor) = "<") =>
        \/ ~result.res.ok
        \/ result.res.val.lt_token /\ result.res.val.gt_token

\* C3: once the opening bracket is read the type parameter list is attempted
\* iff the lifetime list is empty or ends with a delimiter, a skipped list is
\* empty, and a parsed Generics with type parameters has an empty_or_trailing
\* lifetime list.
C3_TyParamsGate ==
    ParsedGenerics =>
        /\ probe.some =>
               (probe.v.attempted <=> empty_or_trailing(probe.v.lifetimes))
        /\ (probe.some /\ ~probe.v.attempted) => is_empty(result.res.val.ty_params)
        /\ ~is_empty(result.res.val.ty_params)
               => empty_or_trailing(result.res.val.lifetimes)

C3_Witness ==
    /\ pc = "value"
    /\ result.prod = "Generics"
    /\ probe.some
    /\ ~probe.v.attempted
    /\ result.res.val.lt_token
    /\ ~is_empty(result.res.val.lifetimes)
    /\ is_empty(result.res.val.ty_params)

ColonIffBounds(x) == x.colon_token <=> ~is_empty(x.bounds)

EqIffDefault(x) == x.eq_token <=> x.default.some

\* the cursor is attributes, a name of class Names, a colon and then no bound
ColonWithoutBound(s, Names, Bound(_)) ==
    With(many0_outer_attrs(s).rest, LAMBDA r :
        /\ Len(r) >= 2
        /\ r[1] \in Names
        /\ r[2] = ":"
        /\ ~Bound(SubSeq(r, 3, Len(r))).ok)

\* C4: every LifetimeDef and TypeParam the parsers return, alone or in the lists
\* of a Generics, has its colon iff its bounds are non-empty, and a TypeParam
\* its equals sign iff its default; a colon followed by no bound is a failure.
C4_ColonIffBounds ==
    /\ (pc = "parsed" /\ result.prod = "LifetimeDef") =>
           /\ result.res.ok => ColonIffBounds(result.res.val)
           /\ ColonWithoutBound(cursor, Lifetimes, Lifetime_parse) => ~result.res.ok
    /\ (pc = "parsed" /\ result.prod = "TypeParam") =>
           /\ result.res.ok =>
                  ColonIffBounds(result.res.val) /\ EqIffDefault(result.res.val)
           /\ ColonWithoutBound(cursor, Idents, TypeParamBound_parse) => ~result.res.ok
    /\ ParsedGenerics =>
           /\ \A k \in 1..Len(result.res.val.lifetimes) :
                  ColonIffBounds(result.res.val.lifetimes[k].item)
           /\ \A k \in 1..Len(result.res.val.ty_params) :
                  /\ ColonIffBounds(result.res.val.ty_params[k].item)
                  /\ EqIffDefault(result.res.val.ty_params[k].item)

C4_Witness ==
    /\ pc = "parsed"
    /\ result.prod = "TypeParam"
    /\ ColonWithoutBound(cursor, Idents, TypeParamBound_parse)
    /\ ~result.res.ok

WherePredicateShape(x) ==
    /\ x.kind \in {"BoundPredicate", "RegionPredicate"}
    /\ x.kind = "BoundPredicate" => ~is_empty(x.bounds)
    /\ (x.kind = "RegionPredicate" /\ ~x.colon_token) => is_empty(x.bounds)

\* C5: every WherePredicate the parser returns, alone or in a WhereClause, is a
\* BoundPredicate with a non-empty bounds list or a RegionPredicate whose
\* bounds list is empty when its colon is absent; never an EqPredicate.
C5_WherePredicateShape ==
    /\ (pc = "parsed" /\ result.prod = "WherePredicate" /\ result.res.ok)
           => WherePredicateShape(result.res.val)
    /\ (pc = "parsed" /\ result.prod = "WhereClause" /\ result.res.ok)
           => \A k \in 1..Len(result.res.val.predicates) :
                  WherePredicateShape(result.res.val.predicates[k].item)

C5_Witness ==
    /\ pc = "parsed"
    /\ result.prod = "WherePredicate"
    /\ result.res.ok
    /\ result.res.val.kind = "BoundPredicate"
    /\ ~is_empty(result.res.val.bounds)
    /\ cursor[1] \in Idents

\* what a view prints for one lifetime / one type parameter
ViewLifetime(v, l) ==
    IF v \in {"Generics", "ImplGenerics"} THEN LifetimeDef_to_tokens(l)
    ELSE Lifetime_to_tokens(l.lifetime)

ViewTyParam(v, p) ==
    CASE v = "Generics" -> TypeParam_to_tokens(p)
      [] v = "ImplGenerics" -> ImplGenerics_item(p)
      [] OTHER -> Ident_to_tokens(p.ident)

\* C6: in each of the four views the parameters are printed as one comma
\* separated sequence: one comma more than the lists' own delimiters iff the
\* lifetime list is non-empty, its last item has no delimiter and there is a
\* type parameter; never two commas in a row.
C6_SyntheticComma ==
    (pc = "printed" /\ view \in Views) =>
        /\ Count(tokens, ",")
               = OwnDelims(generics.lifetimes) + OwnDelims(generics.ty_params)
                 + (IF NeedsComma(generics) THEN 1 ELSE 0)
        /\ tokens # <<>> =>
               Inner(tokens, view)
                   = JoinedParams(generics, LAMBDA l : ViewLifetime(view, l),
                                  LAMBDA p : ViewTyParam(view, p))
        /\ \A i \in 1..(Len(tokens) - 1) : ~(tokens[i] = "," /\ tokens[i + 1] = ",")

C6_Witness ==
    /\ Printed("TypeGenerics")
    /\ NeedsComma(generics)
    /\ Len(generics.lifetimes) = 1
    /\ Len(generics.ty_params) = 1
    /\ Count(tokens, ",") = 1 + OwnDelims(generics.ty_params)

\* C7: each of the four views prints no token iff both lists are empty,
\* whatever lt_token, gt_token and the where-clause are; otherwise the output
\* opens with `<` (after `::` for the turbofish) and ends with `>`.
C7_EmptyIffNoParams ==
    (pc = "printed" /\ view \in Views) =>
        /\ tokens = <<>> <=> (is_empty(generics.lifetimes) /\ is_empty(generics.ty_params))
        /\ tokens # <<>> =>
               /\ tokens[Len(tokens)] = ">"
               /\ IF view = "Turbofish"
                  THEN tokens[1] = "::" /\ tokens[2] = "<"
                  ELSE tokens[1] = "<"

C7_Witness ==
    /\ Printed("Turbofish")
    /\ ~generics.lt_token
    /\ ~generics.gt_token
    /\ ~is_empty(generics.ty_params)
    /\ is_empty(generics.lifetimes)
    /\ tokens[2] = "<"

WithoutDefaults(g) ==
    [g EXCEPT !.ty_params =
        [k \in 1..Len(g.ty_params) |->
            [g.ty_params[k] EXCEPT !.item.default = None, !.item.eq_token = FALSE]]]

\* C8: the impl-site view prints what the declaration view prints of the value
\* with every type parameter's default and eq_token removed, and no `=`.
C8_ImplIsDeclarationWithoutDefaults ==
    Printed("ImplGenerics") =>
        /\ tokens = Generics_to_tokens(WithoutDefaults(generics))
        /\ Count(tokens, "=") = 0

C8_Witness ==
    /\ Printed("ImplGenerics")
    /\ \E k \in 1..Len(generics.ty_params) :
           /\ generics.ty_params[k].item.default.some
           /\ ~is_empty(generics.ty_params[k].item.bounds)
    /\ ~is_empty(generics.lifetimes)
    /\ tokens # Generics_to_tokens(generics)

TypeUseExample ==
    <<"<", "'a", ":", "'b", ",", "T", ":", "Clone", "=", "u8", ">">>

\* C9: the type-use-site view of a value with a parameter prints, between the
\* brackets, the lifetime token of every lifetime and then the identifier of
\* every type parameter, in order, with commas and nothing else, each item that
\* has a delimiter followed by it; `<'a: 'b, T: Clone = u8>` prints `<'a, T>`;
\* the turbofish view is `::` followed by the same tokens.
C9_BareNames ==
    /\ (Printed("TypeGenerics") /\ ~empty_normal_generics(generics)) =>
           /\ tokens[1] = "<" /\ tokens[Len(tokens)] = ">"
           /\ SelectSeq(Inner(tokens, view), LAMBDA x : x # ",")
                  = [k \in 1..NumParams(generics) |->
                        IF k <= Len(generics.lifetimes)
                        THEN generics.lifetimes[k].item.lifetime
                        ELSE generics.ty_params[k - Len(generics.lifetimes)].item.ident]
           /\ Inner(tokens, view)
                  = JoinedParams(generics, LAMBDA l : <<l.lifetime>>, LAMBDA p : <<p.ident>>)
           /\ generics = Generics_parse(TypeUseExample).val
                  => tokens = <<"<", "'a", ",", "T", ">">>
    /\ (Printed("Turbofish") /\ ~empty_normal_generics(generics)) =>
           /\ tokens[1] = "::"
           /\ Tail(tokens)
                  = <<"<">>
                    \o JoinedParams(generics, LAMBDA l : <<l.lifetime>>, LAMBDA p : <<p.ident>>)
                    \o <<">">>

C9_Witness ==
    /\ Printed("TypeGenerics")
    /\ generics = Generics_parse(TypeUseExample).val
    /\ tokens = <<"<", "'a", ",", "T", ">">>

\* C10: a WhereClause prints no token iff it has no predicate, whatever
\* where_token is; with a predicate it prints `where` and then the predicates,
\* also when where_token is absent.
C10_WhereClauseElision ==
    Printed("WhereClause") =>
        /\ tokens = <<>> <=> is_empty(generics.where_clause.predicates)
        /\ ~is_empty(generics.where_clause.predicates) =>
               /\ Head(tokens) = "where"
               /\ Tail(tokens)
                      = Delimited_to_tokens(generics.where_clause.predicates,
                                            WherePredicate_to_tokens, ",")
               /\ Len(tokens) > 1

C10_Witness ==
    /\ Printed("WhereClause")
    /\ generics.where_clause.where_token
    /\ is_empty(generics.where_clause.predicates)
    /\ generics.where_clause # WhereClause_none
    /\ tokens = <<>>

====
